---- MODULE Spec2Model ----
(***************************************************************************)
(* A model of `bump`: the semver policy of src/bump/src/utils.rs           *)
(* (bump_kind, updated_req, to_min_req, req_into_string) and the release   *)
(* flow of src/bump/src/main.rs that drives it.                            *)
(*                                                                         *)
(* Strings are sequences of one-character strings, so that formatting,    *)
(* trimming and parsing are computed character by character.  The semver  *)
(* crate's operations the code calls (ordering, matching, Display, parse) *)
(* are written out as the crate computes them.                             *)
(***************************************************************************)
EXTENDS Integers, Sequences, FiniteSets, TLC

VARIABLES pc, req, v1, v2, kind, out, calls, text, deps, todo, manifest

vars == <<pc, req, v1, v2, kind, out, calls, text, deps, todo, manifest>>

(***************************************************************************)
(* Bounds of the model.                                                    *)
(***************************************************************************)
\* largest major/minor/patch component of the versions and requirements
\* enumerated for bump_kind and updated_req
MaxComp == 2
\* largest component of the requirements enumerated for updated_req
MaxReqComp == 1
\* largest component of the versions and requirements enumerated with a
\* pre-release tag or build metadata for updated_req
MaxTagComp == 1
\* most dependents a workspace member has in the release flow
MaxDependents == 3
\* largest component of the versions of the release flow
MaxFlowComp == 1
\* to_min_req is applied to versions with components up to this, and to the
\* three-digit components of LongComps
MaxMinReqComp == 11

(***************************************************************************)
(* Characters and strings.                                                 *)
(***************************************************************************)
Digits == <<"0", "1", "2", "3", "4", "5", "6", "7", "8", "9">>

IsDigit(c) == \E d \in 1..10 : Digits[d] = c

DigitVal(c) == (CHOOSE d \in 1..10 : Digits[d] = c) - 1

\* the ASCII letters and '-' an identifier may hold besides digits
IsIdentLetter(c) == c \in {"a", "b", "x", "X", "-"}

\* byte order of the characters identifiers are compared by (ASCII)
CharCode(c) ==
  CASE c = "-" -> 45
    [] IsDigit(c) -> 48 + DigitVal(c)
    [] c = "X" -> 88
    [] c = "a" -> 97
    [] c = "b" -> 98
    [] c = "x" -> 120
    [] OTHER -> 0

\* u64's Display: decimal, no leading zeros
RECURSIVE NatToStr(_)
NatToStr(n) ==
  IF n < 10 THEN <<Digits[n + 1]>>
  ELSE NatToStr(n \div 10) \o <<Digits[(n % 10) + 1]>>

StartsWith(s, p) == Len(s) >= Len(p) /\ SubSeq(s, 1, Len(p)) = p

EndsWith(s, p) == Len(s) >= Len(p) /\ SubSeq(s, Len(s) - Len(p) + 1, Len(s)) = p

Drop(s, n) == SubSeq(s, n + 1, Len(s))

\* str::trim_end_matches: the pattern is removed from the end repeatedly
RECURSIVE trim_end_matches(_, _)
trim_end_matches(s, p) ==
  IF EndsWith(s, p) THEN trim_end_matches(SubSeq(s, 1, Len(s) - Len(p)), p)
  ELSE s

\* str::trim_start_matches(' ')
RECURSIVE TrimSpaces(_)
TrimSpaces(s) == IF s # <<>> /\ s[1] = " " THEN TrimSpaces(Tail(s)) ELSE s

\* str::split('.'): the segments between the dots (one empty segment for "")
RECURSIVE SplitDots(_)
SplitDots(s) ==
  IF \A i \in 1..Len(s) : s[i] # "."
  THEN <<s>>
  ELSE LET i == CHOOSE k \in 1..Len(s) : s[k] = "." /\ \A j \in 1..(k - 1) : s[j] # "."
       IN <<SubSeq(s, 1, i - 1)>> \o SplitDots(Drop(s, i))

\* Ord for str: byte-wise lexicographic; -1, 0, 1
RECURSIVE CmpStr(_, _)
CmpStr(a, b) ==
  IF a = <<>> THEN (IF b = <<>> THEN 0 ELSE -1)
  ELSE IF b = <<>> THEN 1
  ELSE IF CharCode(a[1]) < CharCode(b[1]) THEN -1
  ELSE IF CharCode(a[1]) > CharCode(b[1]) THEN 1
  ELSE CmpStr(Tail(a), Tail(b))

CmpInt(a, b) == IF a < b THEN -1 ELSE IF a > b THEN 1 ELSE 0

AllDigits(s) == \A i \in 1..Len(s) : IsDigit(s[i])

(***************************************************************************)
(* semver::Version: major, minor, patch, pre, build; pre and build are the *)
(* identifier strings ("" when absent).  Option<u64> is <<>> or <<n>>.     *)
(***************************************************************************)
None == <<>>

Some(n) == <<n>>

Version(ma, mi, pa, pre, build) ==
  [major |-> ma, minor |-> mi, patch |-> pa, pre |-> pre, build |-> build]

\* Ord for Prerelease: a release is greater than any pre-release; identifiers
\* are compared in turn, numeric ones by value and below alphanumeric ones
RECURSIVE CmpPreSegs(_, _)
CmpPreSegs(l, r) ==
  IF l = <<>> THEN (IF r = <<>> THEN 0 ELSE -1)
  ELSE IF r = <<>> THEN 1
  ELSE LET a == l[1]
           b == r[1]
           o == IF AllDigits(a) /\ AllDigits(b)
                THEN (IF Len(a) # Len(b) THEN CmpInt(Len(a), Len(b)) ELSE CmpStr(a, b))
                ELSE IF AllDigits(a) THEN -1
                ELSE IF AllDigits(b) THEN 1
                ELSE CmpStr(a, b)
       IN IF o # 0 THEN o ELSE CmpPreSegs(Tail(l), Tail(r))

CmpPre(a, b) ==
  IF a = <<>> THEN (IF b = <<>> THEN 0 ELSE 1)
  ELSE IF b = <<>> THEN -1
  ELSE CmpPreSegs(SplitDots(a), SplitDots(b))

\* Ord for BuildMetadata: segment by segment, numeric segments by value with
\* leading zeros ignored, then by length; no metadata is the least
RECURSIVE StripLeadingZeros(_)
StripLeadingZeros(s) ==
  IF s # <<>> /\ s[1] = "0" THEN StripLeadingZeros(Tail(s)) ELSE s

RECURSIVE CmpBuildSegs(_, _)
CmpBuildSegs(l, r) ==
  IF l = <<>> THEN (IF r = <<>> THEN 0 ELSE -1)
  ELSE IF r = <<>> THEN 1
  ELSE LET a == l[1]
           b == r[1]
           az == StripLeadingZeros(a)
           bz == StripLeadingZeros(b)
           o == IF AllDigits(a) /\ AllDigits(b)
                THEN (IF Len(az) # Len(bz) THEN CmpInt(Len(az), Len(bz))
                      ELSE IF CmpStr(az, bz) # 0 THEN CmpStr(az, bz)
                      ELSE CmpInt(Len(a), Len(b)))
                ELSE IF AllDigits(a) THEN -1
                ELSE IF AllDigits(b) THEN 1
                ELSE CmpStr(a, b)
       IN IF o # 0 THEN o ELSE CmpBuildSegs(Tail(l), Tail(r))

CmpBuild(a, b) == CmpBuildSegs(SplitDots(a), SplitDots(b))

\* derived Ord for Version: the fields in order
CmpVersion(a, b) ==
  IF a.major # b.major THEN CmpInt(a.major, b.major)
  ELSE IF a.minor # b.minor THEN CmpInt(a.minor, b.minor)
  ELSE IF a.patch # b.patch THEN CmpInt(a.patch, b.patch)
  ELSE IF CmpPre(a.pre, b.pre) # 0 THEN CmpPre(a.pre, b.pre)
  ELSE CmpBuild(a.build, b.build)

VersionGt(a, b) == CmpVersion(a, b) = 1

VersionLe(a, b) == CmpVersion(a, b) # 1

\* Display for Version
VersionToString(v) ==
  NatToStr(v.major) \o <<".">> \o NatToStr(v.minor) \o <<".">> \o NatToStr(v.patch)
    \o (IF v.pre # <<>> THEN <<"-">> \o v.pre ELSE <<>>)
    \o (IF v.build # <<>> THEN <<"+">> \o v.build ELSE <<>>)

(***************************************************************************)
(* semver::Comparator {op, major, minor, patch, pre} and VersionReq, a     *)
(* sequence of comparators; matching as in the crate's eval module.        *)
(***************************************************************************)
Ops == {"Exact", "Greater", "GreaterEq", "Less", "LessEq", "Tilde", "Caret", "Wildcard"}

Comparator(op, ma, mi, pa, pre) ==
  [op |-> op, major |-> ma, minor |-> mi, patch |-> pa, pre |-> pre]

matches_exact(cmp, ver) ==
  IF ver.major # cmp.major THEN FALSE
  ELSE IF cmp.minor # None /\ ver.minor # cmp.minor[1] THEN FALSE
  ELSE IF cmp.patch # None /\ ver.patch # cmp.patch[1] THEN FALSE
  ELSE ver.pre = cmp.pre

matches_greater(cmp, ver) ==
  IF ver.major # cmp.major THEN ver.major > cmp.major
  ELSE IF cmp.minor = None THEN FALSE
  ELSE IF ver.minor # cmp.minor[1] THEN ver.minor > cmp.minor[1]
  ELSE IF cmp.patch = None THEN FALSE
  ELSE IF ver.patch # cmp.patch[1] THEN ver.patch > cmp.patch[1]
  ELSE CmpPre(ver.pre, cmp.pre) = 1

matches_less(cmp, ver) ==
  IF ver.major # cmp.major THEN ver.major < cmp.major
  ELSE IF cmp.minor = None THEN FALSE
  ELSE IF ver.minor # cmp.minor[1] THEN ver.minor < cmp.minor[1]
  ELSE IF cmp.patch = None THEN FALSE
  ELSE IF ver.patch # cmp.patch[1] THEN ver.patch < cmp.patch[1]
  ELSE CmpPre(ver.pre, cmp.pre) = -1

matches_tilde(cmp, ver) ==
  IF ver.major # cmp.major THEN FALSE
  ELSE IF cmp.minor # None /\ ver.minor # cmp.minor[1] THEN FALSE
  ELSE IF cmp.patch # None /\ ver.patch # cmp.patch[1] THEN ver.patch > cmp.patch[1]
  ELSE CmpPre(ver.pre, cmp.pre) >= 0

matches_caret(cmp, ver) ==
  IF ver.major # cmp.major THEN FALSE
  ELSE IF cmp.minor = None THEN TRUE
  ELSE IF cmp.patch = None
       THEN (IF cmp.major > 0 THEN ver.minor >= cmp.minor[1] ELSE ver.minor = cmp.minor[1])
  ELSE LET minor == cmp.minor[1]
           patch == cmp.patch[1]
       IN IF cmp.major > 0 /\ ver.minor # minor THEN ver.minor > minor
          ELSE IF cmp.major > 0 /\ ver.patch # patch THEN ver.patch > patch
          ELSE IF cmp.major = 0 /\ minor > 0 /\ ver.minor # minor THEN FALSE
          ELSE IF cmp.major = 0 /\ minor > 0 /\ ver.patch # patch THEN ver.patch > patch
          ELSE IF cmp.major = 0 /\ minor = 0 /\ (ver.minor # minor \/ ver.patch # patch)
               THEN FALSE
          ELSE CmpPre(ver.pre, cmp.pre) >= 0

matches_impl(cmp, ver) ==
  CASE cmp.op \in {"Exact", "Wildcard"} -> matches_exact(cmp, ver)
    [] cmp.op = "Greater" -> matches_greater(cmp, ver)
    [] cmp.op = "GreaterEq" -> matches_exact(cmp, ver) \/ matches_greater(cmp, ver)
    [] cmp.op = "Less" -> matches_less(cmp, ver)
    [] cmp.op = "LessEq" -> matches_exact(cmp, ver) \/ matches_less(cmp, ver)
    [] cmp.op = "Tilde" -> matches_tilde(cmp, ver)
    [] cmp.op = "Caret" -> matches_caret(cmp, ver)

\* a pre-release version is admitted only by a comparator that names the
\* same major.minor.patch with a pre-release tag of its own
pre_is_compatible(cmp, ver) ==
  /\ cmp.major = ver.major
  /\ cmp.minor = Some(ver.minor)
  /\ cmp.patch = Some(ver.patch)
  /\ cmp.pre # <<>>

\* VersionReq::matches
matches(r, ver) ==
  /\ \A i \in 1..Len(r) : matches_impl(r[i], ver)
  /\ \/ ver.pre = <<>>
     \/ \E i \in 1..Len(r) : pre_is_compatible(r[i], ver)

(***************************************************************************)
(* Parsing, as in the crate's parse module.  A parser returns ok, what it  *)
(* read and the text left.  (u64 overflow is not modelled: the strings     *)
(* the model parses hold components far below 2^64.)                       *)
(***************************************************************************)
RECURSIVE CountDigits(_)
CountDigits(s) == IF s # <<>> /\ IsDigit(s[1]) THEN 1 + CountDigits(Tail(s)) ELSE 0

RECURSIVE StrToNat(_)
StrToNat(s) ==
  IF s = <<>> THEN 0 ELSE 10 * StrToNat(SubSeq(s, 1, Len(s) - 1)) + DigitVal(s[Len(s)])

Fail == [ok |-> FALSE]

\* digits; a leading zero before another digit and no digit at all are errors
numeric_identifier(input) ==
  LET len == CountDigits(input)
  IN IF len = 0 THEN Fail
     ELSE IF len > 1 /\ input[1] = "0" THEN Fail
     ELSE [ok |-> TRUE, val |-> StrToNat(SubSeq(input, 1, len)), rest |-> Drop(input, len)]

\* dot-separated segments of [0-9A-Za-z-]; empty segments are errors, and, in
\* a pre-release, so are numeric segments with a leading zero
RECURSIVE identifier(_, _, _, _, _)
identifier(input, isPre, acc, seg, nondigit) ==
  LET at == acc + seg + 1
      c == IF at <= Len(input) THEN input[at] ELSE ""
  IN IF c # "" /\ IsIdentLetter(c) THEN identifier(input, isPre, acc, seg + 1, TRUE)
     ELSE IF c # "" /\ IsDigit(c) THEN identifier(input, isPre, acc, seg + 1, nondigit)
     ELSE IF seg = 0
          THEN (IF acc = 0 /\ c # "." THEN [ok |-> TRUE, id |-> <<>>, rest |-> input]
                ELSE Fail)
     ELSE IF isPre /\ seg > 1 /\ ~nondigit /\ input[acc + 1] = "0" THEN Fail
     ELSE IF c = "." THEN identifier(input, isPre, acc + seg + 1, 0, FALSE)
     ELSE [ok |-> TRUE, id |-> SubSeq(input, 1, acc + seg), rest |-> Drop(input, acc + seg)]

prerelease_identifier(input) == identifier(input, TRUE, 0, 0, FALSE)

build_identifier(input) == identifier(input, FALSE, 0, 0, FALSE)

IsWildcard(s) == s # <<>> /\ s[1] \in {"*", "x", "X"}

\* the operator a comparator starts with; none is a caret
op(input) ==
  IF StartsWith(input, <<"=">>) THEN [op |-> "Exact", rest |-> Drop(input, 1)]
  ELSE IF StartsWith(input, <<">", "=">>) THEN [op |-> "GreaterEq", rest |-> Drop(input, 2)]
  ELSE IF StartsWith(input, <<">">>) THEN [op |-> "Greater", rest |-> Drop(input, 1)]
  ELSE IF StartsWith(input, <<"<", "=">>) THEN [op |-> "LessEq", rest |-> Drop(input, 2)]
  ELSE IF StartsWith(input, <<"<">>) THEN [op |-> "Less", rest |-> Drop(input, 1)]
  ELSE IF StartsWith(input, <<"~">>) THEN [op |-> "Tilde", rest |-> Drop(input, 1)]
  ELSE IF StartsWith(input, <<"^">>) THEN [op |-> "Caret", rest |-> Drop(input, 1)]
  ELSE [op |-> "Caret", rest |-> input]

\* pre-release and build metadata after a patch component; the build metadata
\* of a comparator is read and dropped
comparator_tail(o, major, minor, patch, input) ==
  LET hasPre == patch # None /\ StartsWith(input, <<"-">>)
      pre == IF hasPre THEN prerelease_identifier(Drop(input, 1))
             ELSE [ok |-> TRUE, id |-> <<>>, rest |-> input]
  IN IF ~pre.ok \/ (hasPre /\ pre.id = <<>>) THEN Fail
     ELSE LET hasBuild == patch # None /\ StartsWith(pre.rest, <<"+">>)
              build == IF hasBuild THEN build_identifier(Drop(pre.rest, 1))
                       ELSE [ok |-> TRUE, id |-> <<>>, rest |-> pre.rest]
          IN IF ~build.ok \/ (hasBuild /\ build.id = <<>>) THEN Fail
             ELSE [ok |-> TRUE, cmp |-> Comparator(o, major, minor, patch, pre.id),
                   rest |-> TrimSpaces(build.rest)]

comparator_patch(o, defaultOp, major, minor, hasWildcard, input) ==
  IF StartsWith(input, <<".">>)
  THEN LET t == Drop(input, 1)
       IN IF IsWildcard(t)
          THEN comparator_tail(IF defaultOp THEN "Wildcard" ELSE o, major, minor, None, Drop(t, 1))
          ELSE IF hasWildcard THEN Fail
          ELSE LET n == numeric_identifier(t)
               IN IF ~n.ok THEN Fail
                  ELSE comparator_tail(o, major, minor, Some(n.val), n.rest)
  ELSE comparator_tail(o, major, minor, None, input)

comparator(input) ==
  LET o == op(input)
      defaultOp == Len(o.rest) = Len(input)
      major == numeric_identifier(TrimSpaces(o.rest))
  IN IF ~major.ok THEN Fail
     ELSE IF StartsWith(major.rest, <<".">>)
          THEN LET t == Drop(major.rest, 1)
               IN IF IsWildcard(t)
                  THEN comparator_patch(IF defaultOp THEN "Wildcard" ELSE o.op, defaultOp,
                                        major.val, None, TRUE, Drop(t, 1))
                  ELSE LET n == numeric_identifier(t)
                       IN IF ~n.ok THEN Fail
                          ELSE comparator_patch(o.op, defaultOp, major.val, Some(n.val),
                                                FALSE, n.rest)
          ELSE comparator_patch(o.op, defaultOp, major.val, None, FALSE, major.rest)

\* comparators separated by commas
RECURSIVE version_req(_)
version_req(input) ==
  LET c == comparator(input)
  IN IF ~c.ok THEN Fail
     ELSE IF c.rest = <<>> THEN [ok |-> TRUE, req |-> <<c.cmp>>]
     ELSE IF ~StartsWith(c.rest, <<",">>) THEN Fail
     ELSE LET more == version_req(TrimSpaces(Drop(c.rest, 1)))
          IN IF ~more.ok THEN Fail
             ELSE [ok |-> TRUE, req |-> <<c.cmp>> \o more.req]

\* VersionReq::parse; a lone wildcard is the requirement with no comparator
VersionReq_parse(s) ==
  LET t == TrimSpaces(s)
  IN IF IsWildcard(t)
     THEN (IF TrimSpaces(Drop(t, 1)) = <<>> THEN [ok |-> TRUE, req |-> <<>>] ELSE Fail)
     ELSE version_req(t)

\* Version::parse: major.minor.patch[-pre][+build] and nothing after it
Version_parse(s) ==
  LET major == numeric_identifier(s)
  IN IF s = <<>> \/ ~major.ok \/ ~StartsWith(major.rest, <<".">>) THEN Fail
     ELSE LET minor == numeric_identifier(Drop(major.rest, 1))
          IN IF ~minor.ok \/ ~StartsWith(minor.rest, <<".">>) THEN Fail
             ELSE LET patch == numeric_identifier(Drop(minor.rest, 1))
                  IN IF ~patch.ok THEN Fail
                     ELSE LET hasPre == StartsWith(patch.rest, <<"-">>)
                              pre == IF hasPre THEN prerelease_identifier(Drop(patch.rest, 1))
                                     ELSE [ok |-> TRUE, id |-> <<>>, rest |-> patch.rest]
                          IN IF ~pre.ok \/ (hasPre /\ pre.id = <<>>) THEN Fail
                             ELSE LET hasBuild == StartsWith(pre.rest, <<"+">>)
                                      build == IF hasBuild THEN build_identifier(Drop(pre.rest, 1))
                                               ELSE [ok |-> TRUE, id |-> <<>>, rest |-> pre.rest]
                                  IN IF ~build.ok \/ (hasBuild /\ build.id = <<>>)
                                        \/ build.rest # <<>>
                                     THEN Fail
                                     ELSE [ok |-> TRUE,
                                           ver |-> Version(major.val, minor.val, patch.val,
                                                           pre.id, build.id)]

(***************************************************************************)
(* src/bump/src/utils.rs                                                   *)
(***************************************************************************)
\* bump_kind with the pre-stable patch case left to the stable rules
bump_kind_prestable_falls_through(cur, new) ==
  IF ~VersionGt(new, cur) THEN "AssertFailed"
  ELSE IF cur.major = 0 /\ cur.minor = 0 THEN "Major"
  ELSE IF cur.major = 0 /\ new.major > 0 THEN "Major"
  ELSE IF cur.major = 0 /\ new.minor > cur.minor THEN "Major"
  ELSE IF new.major > cur.major THEN "Major"
  ELSE IF new.minor > cur.minor THEN "Minor"
  ELSE IF new.patch > cur.patch THEN "Patch"
  ELSE "Unimplemented"

\* bump_kind with the patch test ahead of the minor test
bump_kind_patch_before_minor(cur, new) ==
  IF ~VersionGt(new, cur) THEN "AssertFailed"
  ELSE IF cur.major = 0 /\ cur.minor = 0 THEN "Major"
  ELSE IF cur.major = 0
       THEN (IF new.major > 0 THEN "Major"
             ELSE IF new.minor > cur.minor THEN "Major"
             ELSE "Minor")
  ELSE IF new.major > cur.major THEN "Major"
  ELSE IF new.patch > cur.patch THEN "Patch"
  ELSE IF new.minor > cur.minor THEN "Minor"
  ELSE "Unimplemented"

\* bump_kind without its assertion
bump_kind_no_assert(cur, new) ==
  IF cur.major = 0 /\ cur.minor = 0 THEN "Major"
  ELSE IF cur.major = 0
       THEN (IF new.major > 0 THEN "Major"
             ELSE IF new.minor > cur.minor THEN "Major"
             ELSE "Minor")
  ELSE IF new.major > cur.major THEN "Major"
  ELSE IF new.minor > cur.minor THEN "Minor"
  ELSE IF new.patch > cur.patch THEN "Patch"
  ELSE "Unimplemented"

\* bump_kind with 0.x -> 0.y (y > x) taken for a minor bump
bump_kind_prestable_minor(cur, new) ==
  IF ~VersionGt(new, cur) THEN "AssertFailed"
  ELSE IF cur.major = 0 /\ cur.minor = 0 THEN "Major"
  ELSE IF cur.major = 0
       THEN (IF new.major > 0 THEN "Major" ELSE "Minor")
  ELSE IF new.major > cur.major THEN "Major"
  ELSE IF new.minor > cur.minor THEN "Minor"
  ELSE IF new.patch > cur.patch THEN "Patch"
  ELSE "Unimplemented"

\* bump_kind: the severity of cur -> new, or the panic it ends in
bump_kind(cur, new) ==
  IF ~VersionGt(new, cur) THEN "AssertFailed"
  ELSE IF cur.major = 0 /\ cur.minor = 0 THEN "Major"
  ELSE IF cur.major = 0
       THEN (IF new.major > 0 THEN "Major"
             ELSE IF new.minor > cur.minor THEN "Major"
             ELSE "Minor")
  ELSE IF new.major > cur.major THEN "Major"
  ELSE IF new.minor > cur.minor THEN "Minor"
  ELSE IF new.patch > cur.patch THEN "Patch"
  ELSE "Unimplemented"

Severities == {"Patch", "Minor", "Major"}

\* str::trim_end_matches with a set of characters for its pattern
RECURSIVE trim_end_chars(_, _)
trim_end_chars(s, cs) ==
  IF s # <<>> /\ s[Len(s)] \in cs THEN trim_end_chars(SubSeq(s, 1, Len(s) - 1), cs) ELSE s

\* to_min_req trimming the characters '.' and '0' instead of the text ".0"
to_min_req_trim_chars(ver) ==
  VersionReq_parse(trim_end_chars(VersionToString(ver), {".", "0"}))

\* to_min_req: the version's text without its trailing ".0"s, parsed as a
\* requirement (ok is FALSE where the unwrap would panic)
to_min_req(ver) ==
  VersionReq_parse(trim_end_matches(VersionToString(ver), <<".", "0">>))

\* updated_req without the early return for a requirement that matches v2
updated_req_no_match_new(r, a, b) ==
  IF ~matches(r, a)
  THEN [kind |-> "CurrentRequirementDoesNotMatchVersion", req |-> <<>>, calls |-> {}]
  ELSE IF bump_kind(a, b) \in {"Patch", "Minor"}
  THEN [kind |-> "ExistingReqCompatible", req |-> <<>>, calls |-> {<<a, b>>}]
  ELSE IF bump_kind(a, b) = "Major" /\ to_min_req(b).ok
  THEN [kind |-> "UpdateReq", req |-> to_min_req(b).req, calls |-> {<<a, b>>}]
  ELSE [kind |-> "Panic", req |-> <<>>, calls |-> {<<a, b>>}]

\* updated_req testing the new version before the current one
updated_req_new_first(r, a, b) ==
  IF matches(r, b)
  THEN [kind |-> "ExistingReqCompatible", req |-> <<>>, calls |-> {}]
  ELSE IF ~matches(r, a)
  THEN [kind |-> "CurrentRequirementDoesNotMatchVersion", req |-> <<>>, calls |-> {}]
  ELSE IF bump_kind(a, b) \in {"Patch", "Minor"}
  THEN [kind |-> "ExistingReqCompatible", req |-> <<>>, calls |-> {<<a, b>>}]
  ELSE IF bump_kind(a, b) = "Major" /\ to_min_req(b).ok
  THEN [kind |-> "UpdateReq", req |-> to_min_req(b).req, calls |-> {<<a, b>>}]
  ELSE [kind |-> "Panic", req |-> <<>>, calls |-> {<<a, b>>}]

\* updated_req deriving the new requirement from the current version
updated_req_min_req_of_old(r, a, b) ==
  IF ~matches(r, a)
  THEN [kind |-> "CurrentRequirementDoesNotMatchVersion", req |-> <<>>, calls |-> {}]
  ELSE IF matches(r, b)
  THEN [kind |-> "ExistingReqCompatible", req |-> <<>>, calls |-> {}]
  ELSE IF bump_kind(a, b) \in {"Patch", "Minor"}
  THEN [kind |-> "ExistingReqCompatible", req |-> <<>>, calls |-> {<<a, b>>}]
  ELSE IF bump_kind(a, b) = "Major" /\ to_min_req(a).ok
  THEN [kind |-> "UpdateReq", req |-> to_min_req(a).req, calls |-> {<<a, b>>}]
  ELSE [kind |-> "Panic", req |-> <<>>, calls |-> {<<a, b>>}]

\* updated_req: the outcome, the requirement it carries and the bump_kind
\* calls it made
updated_req(r, a, b) ==
  IF ~matches(r, a)
  THEN [kind |-> "CurrentRequirementDoesNotMatchVersion", req |-> <<>>, calls |-> {}]
  ELSE IF matches(r, b)
  THEN [kind |-> "ExistingReqCompatible", req |-> <<>>, calls |-> {}]
  ELSE IF bump_kind(a, b) \in {"Patch", "Minor"}
  THEN [kind |-> "ExistingReqCompatible", req |-> <<>>, calls |-> {<<a, b>>}]
  ELSE IF bump_kind(a, b) = "Major" /\ to_min_req(b).ok
  THEN [kind |-> "UpdateReq", req |-> to_min_req(b).req, calls |-> {<<a, b>>}]
  ELSE [kind |-> "Panic", req |-> <<>>, calls |-> {<<a, b>>}]

\* Display for ComparatorShort: caret and wildcard comparators carry no sigil
ComparatorShort(c) ==
  LET sigil == CASE c.op = "Exact" -> <<"=">>
                 [] c.op = "Greater" -> <<">">>
                 [] c.op = "GreaterEq" -> <<">", "=">>
                 [] c.op = "Less" -> <<"<">>
                 [] c.op = "LessEq" -> <<"<", "=">>
                 [] c.op = "Tilde" -> <<"~">>
                 [] c.op = "Caret" -> <<>>
                 [] c.op = "Wildcard" -> <<>>
      star == IF c.op = "Wildcard" THEN <<".", "*">> ELSE <<>>
  IN sigil \o NatToStr(c.major)
       \o (IF c.minor # None
           THEN <<".">> \o NatToStr(c.minor[1])
                  \o (IF c.patch # None
                      THEN <<".">> \o NatToStr(c.patch[1])
                             \o (IF c.pre # <<>> THEN <<"-">> \o c.pre ELSE <<>>)
                      ELSE star)
           ELSE star)

\* Display for VersionReqShort: "*" for no comparator, else joined by ", "
RECURSIVE JoinComparators(_, _)
JoinComparators(r, i) ==
  IF i > Len(r) THEN <<>>
  ELSE (IF i > 1 THEN <<",", " ">> ELSE <<>>) \o ComparatorShort(r[i])
         \o JoinComparators(r, i + 1)

req_into_string(r) == IF r = <<>> THEN <<"*">> ELSE JoinComparators(r, 1)

(***************************************************************************)
(* The inputs the model enumerates.                                        *)
(***************************************************************************)
Comps == 0..MaxComp

\* pre-release tags and build metadata of the enumerated versions
PreTags == {<<>>, <<"a">>, <<"a", ".", "0">>}

BuildTags == {<<>>, <<"0">>}

Releases == {Version(ma, mi, pa, <<>>, <<>>) : ma \in Comps, mi \in Comps, pa \in Comps}

Versions ==
  {Version(r.major, r.minor, r.patch, pre, build) :
     r \in Releases, pre \in PreTags, build \in BuildTags}

\* the comparators a requirement string can parse to: a patch only after a
\* minor, a pre-release only after a patch, a wildcard in place of a component
Comparators(ops, comps, pres) ==
  LET opt == {None} \cup {Some(n) : n \in comps}
  IN {c \in [op : ops, major : comps, minor : opt, patch : opt, pre : pres] :
        /\ c.minor = None => c.patch = None
        /\ c.patch = None => c.pre = <<>>
        /\ c.pre = <<>> => pres = {<<>>}
        /\ c.op = "Wildcard" => c.patch = None}

ReqComps == 0..MaxReqComp

\* requirements of one comparator without a pre-release tag
PlainReqs == {<<c>> : c \in Comparators(Ops, ReqComps, {<<>>})}

\* requirements of two comparators, and "*" (no comparator)
RangeReqs ==
  {<<>>}
    \cup {<<Comparator("GreaterEq", lo, None, None, <<>>), Comparator("Less", hi, None, None, <<>>)>> :
            lo \in ReqComps, hi \in Comps}

\* versions with a pre-release tag or build metadata, and the requirements
\* whose comparator carries a pre-release tag
TagComps == 0..MaxTagComp

Tags == {<<<<>>, <<>>>>, <<<<"a">>, <<>>>>, <<<<"a", ".", "0">>, <<>>>>, <<<<>>, <<"0">>>>}

TaggedVersions ==
  {Version(ma, mi, pa, t[1], t[2]) : ma \in TagComps, mi \in TagComps, pa \in TagComps, t \in Tags}

TaggedReqs ==
  {<<c>> : c \in Comparators(Ops, TagComps, {<<>>, <<"a">>})}
    \cup {<<c>> : c \in Comparators({"Caret"}, TagComps, {<<>>})}

NoVersion == Version(0, 0, 0, <<>>, <<>>)

NoOut == [kind |-> "", req |-> <<>>, calls |-> {}]

NoManifest == [version |-> <<>>, reqs |-> <<>>]

(***************************************************************************)
(* bump_kind applied to every pair of versions.                            *)
(***************************************************************************)
InitBumpKind ==
  /\ pc = "bump_kind"
  /\ v1 \in Versions
  /\ v2 \in Versions
  /\ req = <<>> /\ kind = "" /\ out = NoOut /\ calls = {} /\ text = <<>>
  /\ deps = <<>> /\ todo = <<>> /\ manifest = NoManifest

CallBumpKind ==
  /\ pc = "bump_kind"
  /\ kind' = bump_kind(v1, v2)
  /\ calls' = {<<v1, v2>>}
  /\ pc' = IF kind' \in Severities THEN "returned" ELSE "panicked"
  /\ UNCHANGED <<req, v1, v2, out, text, deps, todo, manifest>>

NextBumpKind == CallBumpKind

SpecBumpKind == InitBumpKind /\ [][NextBumpKind]_vars

(***************************************************************************)
(* updated_req applied to requirements and pairs of versions.              *)
(***************************************************************************)
InitUpdatedReq ==
  /\ pc = "updated_req"
  /\ \/ req \in PlainReqs \cup RangeReqs /\ v1 \in Releases /\ v2 \in Releases
     \/ req \in TaggedReqs /\ v1 \in TaggedVersions /\ v2 \in TaggedVersions
  /\ kind = "" /\ out = NoOut /\ calls = {} /\ text = <<>>
  /\ deps = <<>> /\ todo = <<>> /\ manifest = NoManifest

CallUpdatedReq ==
  /\ pc = "updated_req"
  /\ out' = updated_req(req, v1, v2)
  /\ calls' = out'.calls
  /\ pc' = IF out'.kind = "Panic" THEN "panicked" ELSE "returned"
  /\ UNCHANGED <<req, v1, v2, kind, text, deps, todo, manifest>>

NextUpdatedReq == CallUpdatedReq

SpecUpdatedReq == InitUpdatedReq /\ [][NextUpdatedReq]_vars

(***************************************************************************)
(* to_min_req and req_into_string applied to versions, as main does with   *)
(* the requirement updated_req hands back.                                 *)
(***************************************************************************)
LongComps == {100, 101, 110}

MinReqComps == (0..MaxMinReqComp) \cup LongComps

MinReqTags ==
  {<<<<>>, <<>>>>, <<<<"a">>, <<>>>>, <<<<"a", ".", "0">>, <<>>>>, <<<<"0", ".", "0">>, <<>>>>,
   <<<<>>, <<"0">>>>, <<<<>>, <<"0", ".", "0">>>>, <<<<"a", ".", "0">>, <<"b", ".", "0">>>>}

MinReqVersions ==
  {Version(ma, mi, pa, t[1], t[2]) :
     ma \in MinReqComps, mi \in MinReqComps, pa \in MinReqComps, t \in MinReqTags}

InitMinReq ==
  /\ pc = "to_min_req"
  /\ v2 \in MinReqVersions
  /\ v1 = NoVersion /\ req = <<>> /\ kind = "" /\ out = NoOut /\ calls = {}
  /\ text = <<>> /\ deps = <<>> /\ todo = <<>> /\ manifest = NoManifest

CallToMinReq ==
  /\ pc = "to_min_req"
  /\ req' = IF to_min_req(v2).ok THEN to_min_req(v2).req ELSE <<>>
  /\ pc' = IF to_min_req(v2).ok THEN "req_into_string" ELSE "panicked"
  /\ UNCHANGED <<v1, v2, kind, out, calls, text, deps, todo, manifest>>

CallReqIntoString ==
  /\ pc = "req_into_string"
  /\ text' = req_into_string(req)
  /\ pc' = "returned"
  /\ UNCHANGED <<req, v1, v2, kind, out, calls, deps, todo, manifest>>

NextMinReq == CallToMinReq \/ CallReqIntoString

SpecMinReq == InitMinReq /\ [][NextMinReq]_vars

(***************************************************************************)
(* The release flow of main: a package is chosen, a new version is asked   *)
(* for until it validates, the package's manifest is written, and the      *)
(* requirement of every selected dependent is reconciled.                  *)
(***************************************************************************)
FlowComps == 0..MaxFlowComp

FlowTags == {<<<<>>, <<>>>>, <<<<"a">>, <<>>>>, <<<<>>, <<"0">>>>}

\* the versions a workspace member has and the maintainer types
FlowVersions ==
  {Version(ma, mi, pa, t[1], t[2]) :
     ma \in FlowComps, mi \in FlowComps, pa \in FlowComps, t \in FlowTags}

\* what the maintainer may type that is no version
BadInputs == {<<>>, <<"1", ".", "0">>, <<"x">>, <<"0", ".", "0", "1", ".", "0">>}

FlowInputs == {VersionToString(v) : v \in FlowVersions} \cup BadInputs

\* the requirements the workspace's members hold on the chosen package, in
\* the order cargo lists the members; the package has the first few of them
\* for dependents
Dependents ==
  <<<<Comparator("Caret", 0, None, None, <<>>)>>,
    <<Comparator("Exact", 0, Some(1), Some(0), <<>>)>>,
    <<Comparator("Exact", 1, Some(0), Some(0), <<"a">>)>>,
    <<Comparator("Tilde", 1, Some(0), None, <<>>)>>>>

Workspaces ==
  {SubSeq(Dependents, 1, n) : n \in {k \in 0..MaxDependents : k <= Len(Dependents)}}

\* the indices MultiSelect hands back, in order
RECURSIVE Ascending(_, _)
Ascending(S, from) ==
  IF S = {} THEN <<>>
  ELSE IF from \in S THEN <<from>> \o Ascending(S \ {from}, from + 1)
  ELSE Ascending(S, from + 1)

\* validate_with's closure refusing only versions below the package's
validate_refuses_lower_only(input, pkgVersion) ==
  IF ~Version_parse(input).ok THEN "not a valid SemVer string"
  ELSE IF CmpVersion(Version_parse(input).ver, pkgVersion) = -1
  THEN "New version must be higher than current version"
  ELSE "Ok"

\* validate_with's closure (main.rs): the text parses and is above the
\* package's version
validate(input, pkgVersion) ==
  IF ~Version_parse(input).ok THEN "not a valid SemVer string"
  ELSE IF VersionLe(Version_parse(input).ver, pkgVersion)
  THEN "New version must be higher than current version"
  ELSE "Ok"

Init ==
  /\ pc = "select_package"
  /\ req = <<>> /\ v1 = NoVersion /\ v2 = NoVersion /\ kind = "" /\ out = NoOut
  /\ calls = {} /\ text = <<>> /\ deps = <<>> /\ todo = <<>> /\ manifest = NoManifest

\* FuzzySelect: the package to bump, with its version, its dependents'
\* requirements and the manifests as they stand
SelectPackage ==
  /\ pc = "select_package"
  /\ \E ver \in FlowVersions, ds \in Workspaces :
       /\ v1' = ver
       /\ deps' = ds
       /\ manifest' = [version |-> VersionToString(ver),
                       reqs |-> [i \in 1..Len(ds) |-> req_into_string(ds[i])]]
  /\ pc' = "new_version"
  /\ UNCHANGED <<req, v2, kind, out, calls, text, todo>>

\* Input: a text the validator refuses is dropped and asked for again; the
\* text it accepts is new_version
EnterVersion ==
  /\ pc = "new_version"
  /\ \E input \in FlowInputs :
       IF validate(input, v1) = "Ok"
       THEN text' = input /\ v2' = Version_parse(input).ver /\ pc' = "write_version"
       ELSE UNCHANGED <<text, v2, pc>>
  /\ UNCHANGED <<req, v1, kind, out, calls, deps, todo, manifest>>

\* the package's manifest takes the new version
WriteVersion ==
  /\ pc = "write_version"
  /\ manifest' = [manifest EXCEPT !.version = text]
  /\ pc' = IF Len(deps) = 0 THEN "clipboard" ELSE "select_dependents"
  /\ UNCHANGED <<req, v1, v2, kind, out, calls, text, deps, todo>>

\* MultiSelect: the dependents whose requirement is to be reconciled
SelectDependents ==
  /\ pc = "select_dependents"
  /\ \E sel \in SUBSET (1..Len(deps)) : todo' = Ascending(sel, 1)
  /\ pc' = "update_dependents"
  /\ UNCHANGED <<req, v1, v2, kind, out, calls, text, deps, manifest>>

\* one turn of the loop over the selections: updated_req on the dependent's
\* requirement, and its manifest rewritten when a new requirement comes back
UpdateDependent ==
  /\ pc = "update_dependents"
  /\ todo # <<>>
  /\ req' = deps[Head(todo)]
  /\ out' = updated_req(deps[Head(todo)], v1, Version_parse(text).ver)
  /\ calls' = calls \cup out'.calls
  /\ pc' = IF out'.kind = "Panic" THEN "panicked" ELSE "update_dependents"
  /\ manifest' = IF out'.kind = "UpdateReq"
                 THEN [manifest EXCEPT !.reqs[Head(todo)] = req_into_string(out'.req)]
                 ELSE manifest
  /\ todo' = Tail(todo)
  /\ UNCHANGED <<v1, v2, kind, text, deps>>

\* the commit message is placed on the clipboard
Clipboard ==
  /\ pc = "clipboard" \/ (pc = "update_dependents" /\ todo = <<>>)
  /\ pc' = "done"
  /\ UNCHANGED <<req, v1, v2, kind, out, calls, text, deps, todo, manifest>>

Next ==
  \/ SelectPackage
  \/ EnterVersion
  \/ WriteVersion
  \/ SelectDependents
  \/ UpdateDependent
  \/ Clipboard

Spec == Init /\ [][Next]_vars

(***************************************************************************)
(* Properties of updated_req, checked under SpecUpdatedReq.                *)
(***************************************************************************)
Called == pc \in {"returned", "panicked"}

\* C1 as stated: updated_req returns ExistingReqCompatible whenever the
\* requirement matches the new version.
C1_CompatibleWheneverMatchesNew ==
  (Called /\ matches(req, v2)) => out.kind = "ExistingReqCompatible"

\* C1, amended: updated_req returns ExistingReqCompatible whenever the
\* requirement matches the new version and the current version; when it matches
\* the new version and not the current one, the outcome is
\* CurrentRequirementDoesNotMatchVersion.
C1_CompatibleWhenMatchesBoth ==
  (Called /\ matches(req, v2)) =>
     /\ pc = "returned"
     /\ out.kind = IF matches(req, v1) THEN "ExistingReqCompatible"
                   ELSE "CurrentRequirementDoesNotMatchVersion"

C1_Witness ==
  /\ pc = "returned"
  /\ matches(req, v1) /\ matches(req, v2) /\ VersionGt(v2, v1)
  /\ bump_kind(v1, v2) = "Major"
  /\ out.kind = "ExistingReqCompatible"

\* C2: updated_req returns CurrentRequirementDoesNotMatchVersion whenever the
\* requirement does not match the current version, whatever the new version
\* (lower, equal, or one the requirement matches), without calling bump_kind
\* and without panicking.
C2_StaleWheneverOldUnmatched ==
  (Called /\ ~matches(req, v1)) =>
     /\ pc = "returned"
     /\ out.kind = "CurrentRequirementDoesNotMatchVersion"
     /\ out.calls = {} /\ calls = {}

C2_Witness ==
  /\ pc = "returned"
  /\ ~matches(req, v1) /\ matches(req, v2) /\ CmpVersion(v2, v1) = -1
  /\ out.kind = "CurrentRequirementDoesNotMatchVersion"

\* the inputs on which C3 has updated_req ask for a new requirement
NeedsUpdate ==
  /\ matches(req, v1) /\ ~matches(req, v2)
  /\ VersionGt(v2, v1)
  /\ bump_kind(v1, v2) = "Major"

\* C3: when the requirement matches old and not new, old < new and the bump is
\* Major, updated_req returns UpdateReq carrying exactly to_min_req(new), and
\* that requirement matches new; on every other input it does not return
\* UpdateReq.
C3_UpdateReqExactlyOnMajor ==
  Called =>
     IF NeedsUpdate
     THEN /\ pc = "returned"
          /\ out.kind = "UpdateReq"
          /\ to_min_req(v2).ok /\ out.req = to_min_req(v2).req
          /\ matches(out.req, v2)
     ELSE out.kind # "UpdateReq"

C3_Witness ==
  /\ pc = "returned" /\ NeedsUpdate
  /\ v1.major >= 1 /\ v2.minor > 0
  /\ out.kind = "UpdateReq" /\ out.req # <<>>

\* C9: whenever updated_req returns ExistingReqCompatible, the requirement
\* matches the new version.
C9_CompatibleImpliesMatchesNew ==
  (Called /\ out.kind = "ExistingReqCompatible") => matches(req, v2)

IsPlainCaret(r) == Len(r) = 1 /\ r[1].op = "Caret" /\ r[1].pre = <<>>

\* the case C10 is about: a caret requirement that matches old and not new
CaretOutgrown ==
  /\ IsPlainCaret(req)
  /\ v1.pre = <<>> /\ v2.pre = <<>>
  /\ VersionGt(v2, v1)
  /\ matches(req, v1) /\ ~matches(req, v2)

\* C10: for a requirement of one caret comparator without pre-release and
\* release versions old < new, if the requirement matches old and not new then
\* bump_kind(old, new) is Major: updated_req never takes its Patch/Minor
\* fallback for caret requirements.
C10_CaretNeverFallsBack ==
  (Called /\ CaretOutgrown) =>
     /\ bump_kind(v1, v2) = "Major"
     /\ out.kind = "UpdateReq"

C10_Witness ==
  /\ pc = "returned" /\ CaretOutgrown
  /\ v1.major = 0 /\ v1.minor > 0 /\ v2.major = 0
  /\ out.kind = "UpdateReq"

(***************************************************************************)
(* Properties of bump_kind, checked under SpecBumpKind.                    *)
(***************************************************************************)
\* C4: for old < new with old.major = 0, bump_kind never returns Patch: it
\* returns Major when old.minor = 0, and when old.minor > 0 it returns Major
\* iff new.major > 0 or new.minor > old.minor, and Minor otherwise.
C4_PreStableNeverPatch ==
  (pc # "bump_kind" /\ VersionGt(v2, v1) /\ v1.major = 0) =>
     /\ pc = "returned"
     /\ kind = IF v1.minor = 0 \/ v2.major > 0 \/ v2.minor > v1.minor THEN "Major"
               ELSE "Minor"

C4_Witness ==
  /\ pc = "returned"
  /\ VersionGt(v2, v1)
  /\ v1.major = 0 /\ v1.minor > 0 /\ v2.major = 0 /\ v2.minor = v1.minor
  /\ v2.patch > v1.patch
  /\ kind = "Minor"

\* C5: for old < new with old.major >= 1, bump_kind returns Major if the
\* majors differ, else Minor if the minors differ, else Patch if the patches
\* differ, whatever the lower fields are.
C5_StableHighestDifferingField ==
  (pc # "bump_kind" /\ VersionGt(v2, v1) /\ v1.major >= 1) =>
     /\ v2.major # v1.major => kind = "Major"
     /\ (v2.major = v1.major /\ v2.minor # v1.minor) => kind = "Minor"
     /\ (v2.major = v1.major /\ v2.minor = v1.minor /\ v2.patch # v1.patch) => kind = "Patch"

C5_Witness ==
  /\ pc = "returned"
  /\ VersionGt(v2, v1)
  /\ v1.major >= 1 /\ v2.major = v1.major /\ v2.minor > v1.minor /\ v2.patch > v1.patch
  /\ kind = "Minor"

SameFields(a, b) == a.major = b.major /\ a.minor = b.minor /\ a.patch = b.patch

\* C8: bump_kind returns no severity and panics when new <= old (the
\* assertion), and when old.major >= 1, new > old and major, minor and patch
\* are all equal (unimplemented).
C8_PanicsOnPreconditionViolation ==
  pc # "bump_kind" =>
     /\ VersionLe(v2, v1) => (pc = "panicked" /\ kind = "AssertFailed")
     /\ (v1.major >= 1 /\ VersionGt(v2, v1) /\ SameFields(v1, v2)) =>
          (pc = "panicked" /\ kind = "Unimplemented")

C8_Witness ==
  /\ pc = "panicked"
  /\ v1.major >= 1 /\ VersionGt(v2, v1) /\ SameFields(v1, v2)
  /\ v1.pre = v2.pre /\ v1.build # v2.build
  /\ kind = "Unimplemented"

(***************************************************************************)
(* Property of to_min_req and req_into_string, checked under SpecMinReq.   *)
(***************************************************************************)
\* the components C6 expects of the minimal requirement of a release
MinimalParts(v) ==
  IF v.minor = 0 /\ v.patch = 0 THEN <<v.major>>
  ELSE IF v.patch = 0 THEN <<v.major, v.minor>>
  ELSE <<v.major, v.minor, v.patch>>

RECURSIVE Dotted(_)
Dotted(parts) ==
  IF Len(parts) = 1 THEN NatToStr(parts[1])
  ELSE NatToStr(parts[1]) \o <<".">> \o Dotted(Tail(parts))

CaretOf(parts) ==
  <<Comparator("Caret", parts[1],
               IF Len(parts) >= 2 THEN Some(parts[2]) ELSE None,
               IF Len(parts) = 3 THEN Some(parts[3]) ELSE None,
               <<>>)>>

\* C6: for a release version v, req_into_string(to_min_req(v)) is "major" when
\* minor and patch are 0, "major.minor" when only patch is 0, and
\* "major.minor.patch" otherwise; it holds no '^' and parses back to one caret
\* comparator with exactly those components.
C6_MinReqShortestCaretString ==
  (pc \in {"returned", "panicked"} /\ v2.pre = <<>> /\ v2.build = <<>>) =>
     /\ pc = "returned"
     /\ req = CaretOf(MinimalParts(v2))
     /\ text = Dotted(MinimalParts(v2))
     /\ \A i \in 1..Len(text) : text[i] # "^"
     /\ VersionReq_parse(text) = [ok |-> TRUE, req |-> CaretOf(MinimalParts(v2))]

C6_Witness ==
  /\ pc = "returned"
  /\ v2.pre = <<>> /\ v2.build = <<>>
  /\ v2.major = 100 /\ v2.minor = 10 /\ v2.patch = 0
  /\ text = <<"1", "0", "0", ".", "1", "0">>

(***************************************************************************)
(* Property of the release flow, checked under Spec.                       *)
(***************************************************************************)
\* C7: bump_kind is only ever called with new > old: the version entered is
\* accepted only when it parses and is above the chosen package's version, and
\* every bump_kind call updated_req makes for a selected dependent gets that
\* package version as old and the accepted version as new.
C7_ClassifierOnlyOnStrictBump ==
  /\ pc \notin {"select_package", "new_version"} =>
       /\ Version_parse(text).ok
       /\ Version_parse(text).ver = v2
       /\ VersionGt(v2, v1)
  /\ \A c \in calls : c = <<v1, v2>> /\ VersionGt(c[2], c[1])

C7_Witness ==
  /\ pc = "done"
  /\ calls = {<<v1, v2>>}
  /\ out.kind = "UpdateReq"

====
